---- MODULE Spec2Model ----
(***************************************************************************)
(* Model of the YAML descriptor validator.                                 *)
(*                                                                         *)
(*   main.py                 main(): settings, discovery, gather, report   *)
(*   main.py                 process_file (legacy: existence + validation) *)
(*   port_common/api.py      process_file (schema check, then existence)   *)
(*   port_common/settings.py PortSettings: token, expiry, refresh          *)
(*   port_common/models.py   PortYaml: structural validation               *)
(*                                                                         *)
(* The tasks of one run are asyncio coroutines on one event loop: a task   *)
(* runs without interruption from one network await to the next, so every  *)
(* action below is one such segment.  asyncio.gather schedules the tasks   *)
(* in argument order and the loop runs each of them to its first await     *)
(* before it polls the network, so the tasks start in discovery order and  *)
(* responses arrive, in any order, once all have started.                  *)
(*                                                                         *)
(* The remote service and the clock are the environment: each response is  *)
(* chosen when it is delivered; the token lifetime the authentication      *)
(* endpoint announces is one setting of the service for the whole run.     *)
(* Init is the state once PortSettings() has loaded its configuration.     *)
(*                                                                         *)
(* Three specifications:                                                   *)
(*   Spec      a run of main(): discovery done, tasks, gather, report      *)
(*   FairSpec  Spec with the fairness the event loop and the client's      *)
(*             timeout give, for termination                               *)
(*   CallSpec  one call of find_yaml_files (or of the discovery loop of    *)
(*             main()), of validate_required_fields or of                  *)
(*             get_access_token, from every argument of a bounded set      *)
(***************************************************************************)
EXTENDS Integers, Sequences, FiniteSets, TLC

\* ------------------------------------------------------------------ bounds
MaxFiles == 2          \* at most this many files are discovered

\* ------------------------------------------------------- program constants
BufferSeconds == 60        \* PortSettings._buffer_seconds
DefaultExpiresIn == 3600   \* data.get("expiresIn", 3600)
InitialExpiry == 0         \* PortSettings._token_expiry after __init__
OK == 200                  \* the only status the code compares against

NoToken == "None"          \* PortSettings._access_token = None (or any falsy value)
ClientSecret == "secret"   \* the legacy scheme sends PORT_CLIENT_SECRET as the bearer

\* ------------------------------------------------------ environment domains
Times == {1000, 4600}                \* the values time.time() takes during a run
Tokens == {"t1"}                     \* accessToken values the endpoint returns
ExpiresInValues == {30}              \* explicit expiresIn values of a response
Statuses == {200, 404}               \* status codes of a response

\* The earliest time of Times: time.time() when the run starts.
StartTime == CHOOSE t \in Times : \A u \in Times : t <= u

\* --------------------------------------------------------------- documents
\* What open and yaml.safe_load give for a file.  yaml: "unreadable" (open
\* raises OSError), "error" (YAMLError), "null" (empty document, None), "list"
\* (a non-mapping document) or "map".  For a
\* mapping, identifier/blueprint are <<>> when the key is missing and <<v>>
\* when present (v = "" is the empty string); properties is the key set of
\* the properties mapping.
Doc(y, id, bp, props) ==
    [yaml |-> y, identifier |-> id, blueprint |-> bp, properties |-> props]

Docs ==
    { Doc("unreadable", <<>>, <<>>, {}),
      Doc("error", <<>>, <<>>, {}),
      Doc("null", <<>>, <<>>, {}),
      Doc("map", <<>>, <<"svc">>, {}),
      Doc("map", <<"e1">>, <<"">>, {}),
      Doc("map", <<"e1">>, <<"svc">>, {"a"}) }

\* One error message of a per-file error list.  kind names the f-string that
\* built it, file is the file the message names (0 when the message names no
\* file) and subject the values interpolated into it.
Err(kind, file, subject) == [kind |-> kind, file |-> file, subject |-> subject]


\* --------------------------------------------------------------- responses
\* One answer of the remote service.  raised: the request raised a transport
\* exception (no status); parsable: response.json() succeeds and gives a
\* mapping; token / expiresIn: the accessToken and expiresIn keys of an
\* authentication body (expiresIn = {} when the key is absent); required:
\* blueprint.schema.required of a schema body (<<>> when absent or empty).
Resp(status, raised, parsable, tok, expiresIn, required) ==
    [status |-> status, raised |-> raised, parsable |-> parsable,
     token |-> tok, expiresIn |-> expiresIn, required |-> required]

NullResp == Resp(0, FALSE, FALSE, NoToken, {}, <<>>)
Transport == Resp(0, TRUE, FALSE, NoToken, {}, <<>>)

\* The expiresIn key of the authentication bodies: absent, or one value.
Lifetimes == {{}} \cup { {x} : x \in ExpiresInValues }

\* The answers to POST auth/access_token of a service whose bodies carry the
\* expiresIn key lt.
RefreshResponses(lt) ==
    { Transport,
      Resp(401, FALSE, TRUE, NoToken, {}, <<>>),
      Resp(200, FALSE, TRUE, NoToken, {}, <<>>) }
    \cup { Resp(200, FALSE, TRUE, t, lt, <<>>) : t \in Tokens }

SchemaResponses ==
    { Transport,
      Resp(500, FALSE, FALSE, NoToken, {}, <<>>),
      Resp(404, FALSE, TRUE, NoToken, {}, <<>>),
      Resp(200, FALSE, TRUE, NoToken, {}, <<"a">>),
      Resp(200, FALSE, TRUE, NoToken, {}, <<"a", "b">>) }

\* A service that never answers, asked by a client without timeout.
NoResponses == {}

EntityResponses ==
    { Transport } \cup { Resp(s, FALSE, TRUE, NoToken, {}, <<>>) : s \in Statuses }

ValidateResponses ==
    { Transport, Resp(200, FALSE, FALSE, NoToken, {}, <<>>) }
    \cup { Resp(s, FALSE, TRUE, NoToken, {}, <<>>) : s \in Statuses }

\* One entry of a file's request history: a request issued (ev = "req", with
\* the bearer token it carries and the seconds left until that token's
\* expiry, expiry - time.time(), when it is issued; tok = NoToken and left = 0
\* for the token request, left = 0 for the client secret, which has no
\* expiry) or a response received (ev = "resp").
Req(op, tok, left) ==
    [ev |-> "req", op |-> op, tok |-> tok, left |-> left, resp |-> NullResp]
Rsp(op, r) ==
    [ev |-> "resp", op |-> op, tok |-> NoToken, left |-> 0, resp |-> r]

\* A function called on its own, outside a run: fn names it, paths is the
\* argument of find_yaml_files, doc the data of validate_required_fields and
\* resp the answer the remote service gives if the call makes a request.
Call(fn, paths, doc, resp) == [fn |-> fn, paths |-> paths, doc |-> doc, resp |-> resp]
NoCall == Call("none", <<>>, Doc("null", <<>>, <<>>, {}), NullResp)

\* The progress of such a call: pos is the next element of paths, out the
\* list built or returned, warned the warnings printed, posted whether a
\* request was issued, raised whether the call raised, done whether it ended.
Ret(pos, out, warned, posted, raised, done) ==
    [pos |-> pos, out |-> out, warned |-> warned, posted |-> posted,
     raised |-> raised, done |-> done]
NoRet == Ret(1, <<>>, <<>>, FALSE, FALSE, FALSE)

\* ------------------------------------------------------------------- state
VARIABLES
    lifetime,    \* the expiresIn key the authentication endpoint sends in this run
    impl,        \* which process_file the tasks run: "api" or "legacy"
    files,       \* changed_files: the discovered documents, in discovery order
    mainPc,      \* main(): "start", "gather" or "exited"
    clientOpen,  \* the httpx.AsyncClient context is open
    pc,          \* pc[i]: where the task of file i is suspended
    result,      \* result[i]: the errors list of process_file for file i
    finished,    \* the tasks in the order they completed
    token,       \* PortSettings._access_token
    expiry,      \* PortSettings._token_expiry
    now,         \* time.time()
    trace,       \* trace[i]: requests issued and responses received for file i
    stdout,      \* the report lines printed by main()
    exitCode,    \* the process exit status once mainPc = "exited"
    call,        \* a function called on its own: its name and arguments
    ret          \* what that call has done and returned so far

vars == <<lifetime, impl, files, mainPc, clientOpen, pc, result, finished,
          token, expiry, now, trace, stdout, exitCode, call, ret>>

FileIds == 1..Len(files)

Init ==
    /\ lifetime \in Lifetimes
    /\ impl \in {"api", "legacy"}
    /\ files \in UNION { [1..n -> Docs] : n \in 0..MaxFiles }
    /\ mainPc = "start"
    /\ clientOpen = FALSE
    /\ pc = [i \in FileIds |-> "new"]
    /\ result = [i \in FileIds |-> <<>>]
    /\ finished = <<>>
    /\ token = NoToken
    /\ expiry = InitialExpiry
    /\ now = StartTime
    /\ trace = [i \in FileIds |-> <<>>]
    /\ stdout = <<>>
    /\ exitCode = 0
    /\ call = NoCall
    /\ ret = NoRet


\* ------------------------------------------------------------ PortSettings
\* token_expired without the refresh buffer.
TokenExpiredNoBuffer(t, exp) == t >= exp

\* settings.py:32-35, token_expired at time t with stored expiry exp.
TokenExpired(t, exp) == t + BufferSeconds >= exp

\* A headers property that formats whatever is stored.
HeadersNeverRaise(tok) == FALSE

\* settings.py:24, `if not self._access_token` in the headers property.
HeadersRaise(tok) == tok = NoToken

\* A cache test that looks at the token alone.
ReturnsCachedIgnoringExpiry(tok, exp, t) == tok # NoToken

\* settings.py:40, get_access_token returns the stored token without a request.
ReturnsCached(tok, exp, t) == tok # NoToken /\ ~TokenExpired(t, exp)

\* A get_access_token that looks neither at the status nor at the token.
RefreshRaisesOnTransportOnly(r) == r.raised

\* settings.py:54-61, the refresh response makes get_access_token raise:
\* transport exception, status other than 200, body that is no JSON mapping,
\* or no accessToken in the body.
RefreshRaises(r) ==
    r.raised \/ r.status # OK \/ ~r.parsable \/ r.token = NoToken

\* settings.py:59, the response body has been read, so self._access_token is
\* assigned data.get("accessToken") (before the check of line 60).
RefreshAssignsToken(r) == ~r.raised /\ r.status = OK /\ r.parsable

\* settings.py:64-65, expiry after a successful refresh at time t.
ExpiresIn(r) ==
    IF r.expiresIn = {} THEN DefaultExpiresIn ELSE CHOOSE x \in r.expiresIn : TRUE
NewExpiry(r, t) == t + ExpiresIn(r)

\* settings.py:51-72, the stored token and expiry once the answer r to the
\* token request has been handled at time t, tok and exp being stored before.
TokenAfter(r, tok) == IF RefreshAssignsToken(r) THEN r.token ELSE tok
ExpiryAfter(r, exp, t) == IF RefreshRaises(r) THEN exp ELSE NewExpiry(r, t)

\* ---------------------------------------------------------------- PortYaml
\* A field check that accepts the empty string.
FieldOkAcceptsEmpty(f) == f # <<>>

\* models.py:16-30 (and main.py:39-48): the field is present and non-empty.
FieldOk(f) == f # <<>> /\ f[1] # ""
PortYamlValid(doc) == FieldOk(doc.identifier) /\ FieldOk(doc.blueprint)

\* api.py:118-132 (main.py:69-82): what loading the file gives.
\*   "os_error"    open(file_path) raised OSError
\*   "yaml_error"  yaml.safe_load raised YAMLError
\*   "type_error"  PortYaml(**data) raised TypeError (data is no mapping)
\*   "invalid"     PortYaml(**data) raised ValidationError (a ValueError)
\*   "ok"          identifier and blueprint are set
LoadOutcome(doc) ==
    IF doc.yaml = "unreadable" THEN "os_error"
    ELSE IF doc.yaml = "error" THEN "yaml_error"
    ELSE IF doc.yaml # "map" THEN "type_error"
    ELSE IF PortYamlValid(doc) THEN "ok"
    ELSE "invalid"

Identifier(doc) == doc.identifier[1]
Blueprint(doc) == doc.blueprint[1]

\* ------------------------------------------------------------ schema check
\* A check that stops at the first required field that is absent.
MissingFieldsFirstOnly(required, properties) ==
    IF \A k \in 1..Len(required) : required[k] \in properties THEN <<>>
    ELSE LET k == CHOOSE n \in 1..Len(required) :
                      /\ required[n] \notin properties
                      /\ \A m \in 1..(n - 1) : required[m] \in properties
         IN  <<required[k]>>

RECURSIVE MissingFields(_, _)
\* api.py:51, [field for field in required_fields if field not in properties]
MissingFields(required, properties) ==
    IF required = <<>> THEN <<>>
    ELSE LET rest == MissingFields(Tail(required), properties)
         IN IF Head(required) \in properties THEN rest ELSE <<Head(required)>> \o rest

\* api.py:37-59, the errors validate_required_fields returns once the schema
\* response r has arrived.  The status of r is never looked at.
SchemaErrors(doc, r) ==
    IF r.raised THEN <<Err("validating", 0, <<"transport">>)>>
    ELSE IF ~r.parsable THEN <<Err("validating", 0, <<"json">>)>>
    ELSE IF r.required # <<>> /\ MissingFields(r.required, doc.properties) # <<>>
         THEN <<Err("missing_fields", 0, MissingFields(r.required, doc.properties))>>
    ELSE <<>>

\* process_file going on to the existence lookup whatever the schema check gave.
SchemaShortCircuitNever(errs) == FALSE

\* A process_file that returns early for a failed schema fetch only.
SchemaShortCircuitOnFetchError(errs) == errs # <<>> /\ errs[1].kind = "validating"

\* api.py:137, `if schema_errors:` returns before the existence lookup.
SchemaShortCircuit(errs) == errs # <<>>

\* ---------------------------------------------------------- existence check
\* An existence check that takes every answer for "exists".
EntityExistsAnyStatus(r) == ~r.raised

\* api.py:22 (main.py:55), response.status_code == 200.
EntityExists(r) == r.status = OK

\* api.py:145 (main.py:86), the update-only message.
UpdateOnly(doc) == Err("update_only", 0, <<Identifier(doc), Blueprint(doc)>>)

\* api.py:147-148 (main.py:92-93), the outer except of process_file.
Processing(i, why) == Err("processing", i, <<why>>)

\* The error list of the api task when a call raises: inside
\* validate_required_fields (api.py:56-57) or in process_file (api.py:147-148,
\* where errors is still empty).
RaisedErrors(i, op, why) ==
    IF op = "schema" THEN <<Err("validating", 0, <<why>>)>> ELSE <<Processing(i, why)>>

WaitRefresh(op) == IF op = "schema" THEN "refresh_schema" ELSE "refresh_entity"
WaitGet(op) == IF op = "schema" THEN "wait_schema" ELSE "wait_entity"


\* ------------------------------------------------------------ task segments
\* The task of file i returns errs (process_file returns its errors list).
Finish(i, errs, tr) ==
    /\ pc' = [pc EXCEPT ![i] = "done"]
    /\ result' = [result EXCEPT ![i] = errs]
    /\ finished' = Append(finished, i)
    /\ trace' = [trace EXCEPT ![i] = tr]

\* An outer handler written `except ValueError`: it catches the errors of
\* PortSettings (headers, get_access_token) and lets every other one through.
OuterCatchesValueError(why) == why \in {"headers", "token"}

\* api.py:147, main.py:92, `except Exception` of process_file: every
\* exception the stages raise derives from Exception.
OuterCatches(why) ==
    why \in {"OSError", "TypeError", "transport", "json", "headers", "token"}

\* An exception leaves process_file: the task of file i ends by raising.
Escape(i, tr) ==
    /\ pc' = [pc EXCEPT ![i] = "raised"]
    /\ trace' = [trace EXCEPT ![i] = tr]
    /\ UNCHANGED <<result, finished>>

\* Stage op of file i's task raises `why`, the errors list being errs: the
\* schema stage catches it itself (api.py:56-57), the other stages leave it
\* to the outer handler of process_file, which appends its message.
Raise(i, op, why, errs, tr) ==
    IF op = "schema" \/ OuterCatches(why)
    THEN Finish(i, errs \o RaisedErrors(i, op, why), tr)
    ELSE Escape(i, tr)

\* The task of file i awaits the network at `where`, its errors list being errs.
Suspend(i, where, errs, tr) ==
    /\ pc' = [pc EXCEPT ![i] = where]
    /\ result' = [result EXCEPT ![i] = errs]
    /\ trace' = [trace EXCEPT ![i] = tr]
    /\ UNCHANGED finished

\* api.py:14-32, get_entity / get_blueprint_schema up to the first await, read
\* with the credential (tok, exp), the errors list of the task being errs:
\* refresh when token_expired (settings.py:37-51
\* then posts, since line 40 cannot return the token of an expired credential),
\* else build the headers (which raise without a token) and issue the GET.
AuthorizedCall(i, op, errs, tr, tok, exp) ==
    IF TokenExpired(now, exp) /\ ~ReturnsCached(tok, exp, now)
    THEN Suspend(i, WaitRefresh(op), errs, Append(tr, Req("refresh", NoToken, 0)))
    ELSE IF HeadersRaise(tok)
    THEN Raise(i, op, "headers", errs, tr)
    ELSE Suspend(i, WaitGet(op), errs, Append(tr, Req(op, tok, exp - now)))

\* process_file from its start to its first await (api.py:114-135 with
\* api.py:37-41 and 24-32; main.py:65-84 with main.py:51-54).
StartTask(i) ==
    /\ mainPc = "gather"
    /\ pc[i] = "new"
    /\ \A j \in FileIds : j < i => pc[j] # "new"
    /\ LET doc == files[i]
           load == LoadOutcome(doc)
       IN  IF load = "os_error" THEN Raise(i, "load", "OSError", <<>>, <<>>)
           ELSE IF load = "yaml_error" THEN Finish(i, <<Err("yaml_parse", i, <<>>)>>, <<>>)
           ELSE IF load = "invalid" THEN Finish(i, <<Err("structure", i, <<>>)>>, <<>>)
           ELSE IF load = "type_error" THEN Raise(i, "load", "TypeError", <<>>, <<>>)
           ELSE IF impl = "api" THEN AuthorizedCall(i, "schema", <<>>, <<>>, token, expiry)
           ELSE Suspend(i, "wait_entity", <<>>, <<Req("entity", ClientSecret, 0)>>)
    /\ UNCHANGED <<lifetime, impl, files, mainPc, clientOpen, token, expiry, now,
                   stdout, exitCode>>
    /\ UNCHANGED <<call, ret>>

AllStarted == \A j \in FileIds : pc[j] # "new"

\* settings.py:51-72 and the caller's continuation (api.py:18-21, 28-31): the
\* answer to the POST auth/access_token of file i's task arrives.
DeliverRefresh(i) ==
    /\ mainPc = "gather" /\ AllStarted
    /\ pc[i] \in {"refresh_schema", "refresh_entity"}
    /\ \E r \in RefreshResponses(lifetime) :
         LET op == IF pc[i] = "refresh_schema" THEN "schema" ELSE "entity"
             tr == Append(trace[i], Rsp("refresh", r))
         IN  /\ token' = TokenAfter(r, token)
             /\ expiry' = ExpiryAfter(r, expiry, now)
             /\ IF RefreshRaises(r)
                THEN Raise(i, op, "token", result[i], tr)
                ELSE Suspend(i, WaitGet(op), result[i],
                             Append(tr, Req(op, r.token, NewExpiry(r, now) - now)))
    /\ UNCHANGED <<lifetime, impl, files, mainPc, clientOpen, now, stdout, exitCode>>
    /\ UNCHANGED <<call, ret>>

\* api.py:32, 43-59 and 136-142: the answer to the schema GET arrives;
\* validate_required_fields returns and process_file goes on to get_entity.
DeliverSchema(i) ==
    /\ mainPc = "gather" /\ AllStarted
    /\ pc[i] = "wait_schema"
    /\ \E r \in SchemaResponses :
         LET tr == Append(trace[i], Rsp("schema", r))
             errs == SchemaErrors(files[i], r)
         IN  IF SchemaShortCircuit(errs)
             THEN Finish(i, errs, tr)
             ELSE AuthorizedCall(i, "entity", errs, tr, token, expiry)
    /\ UNCHANGED <<lifetime, impl, files, mainPc, clientOpen, token, expiry, now,
                   stdout, exitCode>>
    /\ UNCHANGED <<call, ret>>

\* api.py:22 and 142-150; main.py:55 and 84-88 (then main.py:58-61 posts the
\* validation request): the answer to the existence GET arrives.
DeliverEntity(i) ==
    /\ mainPc = "gather" /\ AllStarted
    /\ pc[i] = "wait_entity"
    /\ \E r \in EntityResponses :
         LET tr == Append(trace[i], Rsp("entity", r))
             errs == result[i] \o (IF EntityExists(r) THEN <<>> ELSE <<UpdateOnly(files[i])>>)
         IN  IF r.raised THEN Raise(i, "entity", "transport", result[i], tr)
             ELSE IF impl = "api" THEN Finish(i, errs, tr)
             ELSE Suspend(i, "wait_validate", errs,
                          Append(tr, Req("validate", ClientSecret, 0)))
    /\ UNCHANGED <<lifetime, impl, files, mainPc, clientOpen, token, expiry, now,
                   stdout, exitCode>>
    /\ UNCHANGED <<call, ret>>

\* main.py:62 and 88-95: the answer to the legacy validation POST arrives.
DeliverValidate(i) ==
    /\ mainPc = "gather" /\ AllStarted
    /\ pc[i] = "wait_validate"
    /\ \E r \in ValidateResponses :
         LET tr == Append(trace[i], Rsp("validate", r))
         IN  IF r.raised THEN Raise(i, "validate", "transport", result[i], tr)
             ELSE IF ~r.parsable THEN Raise(i, "validate", "json", result[i], tr)
             ELSE IF r.status # OK
             THEN Finish(i, Append(result[i], Err("validation_failed", i, <<>>)), tr)
             ELSE Finish(i, result[i], tr)
    /\ UNCHANGED <<lifetime, impl, files, mainPc, clientOpen, token, expiry, now,
                   stdout, exitCode>>
    /\ UNCHANGED <<call, ret>>

\* time.time() moves on while the tasks wait for the network.
Tick ==
    /\ mainPc = "gather" /\ AllStarted
    /\ \E t \in Times : t > now /\ now' = t
    /\ UNCHANGED <<lifetime, impl, files, mainPc, clientOpen, pc, result, finished,
                   token, expiry, trace, stdout, exitCode>>
    /\ UNCHANGED <<call, ret>>

\* ------------------------------------------------------------------ main()
RECURSIVE Concat(_, _)
\* main.py:136-137, errors.extend(file_errors) for file_errors in results,
\* where results lists the tasks' lists in the order given by `order`.
Concat(res, order) ==
    IF order = <<>> THEN <<>> ELSE res[Head(order)] \o Concat(res, Tail(order))

\* Results collected as the tasks complete (asyncio.as_completed).
GatherOrderAsCompleted(n, done) == done

\* main.py:133-134, asyncio.gather returns the results in the order of its
\* arguments, the discovery order, whatever the order of completion `done`.
GatherOrder(n, done) == [k \in 1..n |-> k]

\* main() without the no-files return.
NoFilesNever(fs) == FALSE

\* main.py:126, `if not changed_files`.
NoFiles(fs) == fs = <<>>

\* A report that prints the errors but falls off the end of main().
ExitStatusAlwaysZero(errors) == 0

\* main.py:139-144, the exit status for the combined error list.
ExitStatus(errors) == IF errors # <<>> THEN 1 ELSE 0

Notice(kind) == Err(kind, 0, <<>>)

\* main.py:109-134, after PortSettings() has loaded: discovery, the no-files
\* return, opening the client and creating one task per file.
MainStart ==
    /\ mainPc = "start"
    /\ IF NoFiles(files)
       THEN /\ stdout' = <<Notice("no_files")>>
            /\ exitCode' = 0
            /\ mainPc' = "exited"
            /\ UNCHANGED clientOpen
       ELSE /\ clientOpen' = TRUE
            /\ mainPc' = "gather"
            /\ UNCHANGED <<stdout, exitCode>>
    /\ UNCHANGED <<lifetime, impl, files, pc, result, finished, token, expiry, now,
                   trace>>
    /\ UNCHANGED <<call, ret>>

\* A gather that returns as soon as one task has returned (asyncio.wait with
\* FIRST_COMPLETED), leaving the siblings behind.
GatherReturnsOnFirst(p) == \E i \in DOMAIN p : p[i] = "done"

\* main.py:134, `await asyncio.gather(*tasks)` returns once every task has
\* returned (no task raises: process_file catches Exception).
GatherReturns(p) == \A i \in DOMAIN p : p[i] = "done"

\* main.py:134-144: gather returns once every task has returned; the client
\* is closed, the lists are combined and the report and exit status follow.
MainReport ==
    /\ mainPc = "gather"
    /\ GatherReturns(pc)
    /\ LET errors == Concat(result, GatherOrder(Len(files), finished))
       IN  /\ stdout' = IF errors # <<>> THEN errors ELSE <<Notice("success")>>
           /\ exitCode' = ExitStatus(errors)
    /\ clientOpen' = FALSE
    /\ mainPc' = "exited"
    /\ UNCHANGED <<lifetime, impl, files, pc, result, finished, token, expiry, now,
                   trace>>
    /\ UNCHANGED <<call, ret>>

Next ==
    \/ MainStart
    \/ \E i \in FileIds : StartTask(i)
    \/ \E i \in FileIds : DeliverRefresh(i)
    \/ \E i \in FileIds : DeliverSchema(i)
    \/ \E i \in FileIds : DeliverEntity(i)
    \/ \E i \in FileIds : DeliverValidate(i)
    \/ Tick
    \/ MainReport

Spec == Init /\ [][Next]_vars

\* The event loop runs a task as soon as it is ready (main.py:148,
\* asyncio.run) and every request ends with a response or an error, at the
\* latest when the client's timeout expires (main.py:132, timeout=30.0): as
\* long as main() or a task can take a step, a step is eventually taken.
Fairness == WF_vars(Next)

FairSpec == Spec /\ Fairness


\* =============================================================== discovery
MaxPaths == 2          \* at most this many --paths arguments

\* A file name is the sequence of its dot-separated parts ("a.yaml" is
\* <<"a", "yaml">>, ".github" is <<"", "github">>) and a path is the sequence
\* of its names, relative to the working directory.  Of the parts used here
\* only "github" begins with the letters github.
GithubName == <<"", "github">>

\* The files on disk, in the order the directory listing gives them.
Tree ==
    << << <<"a", "yaml">> >>,
       << <<"b", "yml">> >>,
       << <<"c", "txt">> >>,
       << <<"U", "YAML">> >>,
       << <<"x", "github", "yaml">> >>,
       << GithubName, <<"w", "yml">> >>,
       << <<"d">>, <<"e", "yaml">> >>,
       << <<"d">>, <<"sub">>, <<"f", "yaml">> >> >>

OnDisk == { Tree[k] : k \in 1..Len(Tree) }

\* The values a --paths argument takes: directories, files, a missing path.
PathArgs ==
    { << <<"d">> >>, << GithubName >>, << <<"missing", "yaml">> >> }
    \cup { f \in OnDisk : f[1] # <<"b", "yml">> }

IsPrefix(p, f) == Len(f) >= Len(p) /\ SubSeq(f, 1, Len(p)) = p

\* Path.is_dir() and Path.is_file().
IsDir(p) == \E f \in OnDisk : Len(f) > Len(p) /\ IsPrefix(p, f)
IsFile(p) == p \in OnDisk

\* str.lower() on the parts used here.
Lower(part) == IF part = "YAML" THEN "yaml" ELSE IF part = "YML" THEN "yml" ELSE part

\* Path.suffix without its dot: the last part of the final name, when the
\* name has a dot that is not its first character.
Suffix(p) ==
    LET name == p[Len(p)]
    IN  IF Len(name) < 2 \/ (Len(name) = 2 /\ name[1] = "") THEN ""
        ELSE name[Len(name)]

\* A name matches the pattern "*.ext" (case-sensitive).
GlobMatch(name, ext) == Len(name) >= 2 /\ name[Len(name)] = ext

\* Path(p).glob("*.ext"): the direct children of p that match.
Glob(p, ext) ==
    LET Match(f) == Len(f) = Len(p) + 1 /\ IsPrefix(p, f) /\ GlobMatch(f[Len(f)], ext)
    IN  SelectSeq(Tree, Match)

\* Path(p).rglob("*.ext"): the files at any depth below p that match.
RGlob(p, ext) ==
    LET Match(f) == Len(f) > Len(p) /\ IsPrefix(p, f) /\ GlobMatch(f[Len(f)], ext)
    IN  SelectSeq(Tree, Match)

\* api.py:100, `".github" in str(f)`: the text .github occurs somewhere in
\* the path, i.e. some part after a dot begins with github.
MentionsGithub(f) ==
    \E k \in 1..Len(f) : \E n \in 2..Len(f[k]) : f[k][n] = "github"

\* api.py:100-101, 108-109: the list comprehension's filter.
NotGithub(fs) ==
    LET Keep(f) == ~MentionsGithub(f)
    IN  SelectSeq(fs, Keep)

\* What one --paths argument adds: the files found and the warning printed.
Found(fs, warned) == [found |-> fs, warned |-> warned]

\* api.py:98-105, one iteration of find_yaml_files' loop.
FindInPath(p) ==
    IF IsDir(p) THEN Found(NotGithub(Glob(p, "yaml")) \o NotGithub(Glob(p, "yml")), <<>>)
    ELSE IF IsFile(p) /\ Lower(Suffix(p)) \in {"yaml", "yml"} /\ ~MentionsGithub(p)
         THEN Found(<<p>>, <<>>)
    ELSE Found(<<>>, <<p>>)

\* main.py:115-122, one iteration of the loop of main().
MainFindInPath(p) ==
    IF IsDir(p) THEN Found(RGlob(p, "yaml") \o RGlob(p, "yml"), <<>>)
    ELSE IF IsFile(p) /\ Lower(Suffix(p)) \in {"yaml", "yml"} THEN Found(<<p>>, <<>>)
    ELSE Found(<<>>, <<p>>)

\* api.py:108-109 and main.py:124, the scan without --paths.
FindDefault == NotGithub(Glob(<<>>, "yaml")) \o NotGithub(Glob(<<>>, "yml"))
MainFindDefault == RGlob(<<>>, "yaml") \o RGlob(<<>>, "yml")

\* api.py:95-105 (main.py:113-122): the loop takes the next --paths argument.
ScanPath ==
    /\ call.fn = "find_yaml_files" /\ ~ret.done
    /\ call.paths # <<>>
    /\ LET p == call.paths[ret.pos]
           got == IF impl = "api" THEN FindInPath(p) ELSE MainFindInPath(p)
       IN  ret' = Ret(ret.pos + 1, ret.out \o got.found, ret.warned \o got.warned,
                      FALSE, FALSE, ret.pos = Len(call.paths))
    /\ UNCHANGED <<lifetime, impl, files, mainPc, clientOpen, pc, result, finished,
                   token, expiry, now, trace, stdout, exitCode, call>>

\* api.py:106-109 (main.py:123-124): no --paths were given.
ScanDefault ==
    /\ call.fn = "find_yaml_files" /\ ~ret.done
    /\ call.paths = <<>>
    /\ ret' = Ret(1, IF impl = "api" THEN FindDefault ELSE MainFindDefault, <<>>,
                  FALSE, FALSE, TRUE)
    /\ UNCHANGED <<lifetime, impl, files, mainPc, clientOpen, pc, result, finished,
                   token, expiry, now, trace, stdout, exitCode, call>>

\* ==================================================== single function calls
MaxRequired == 2       \* at most this many names in a schema's required list

\* The property names of descriptors and schemas.
Fields == {"a", "b", "c"}

\* The required lists a schema body carries (<<>>: empty, or no such key).
RequiredLists == UNION { [1..n -> Fields] : n \in 0..MaxRequired }

\* validate_required_fields called for a descriptor with properties P, the
\* schema request being answered by r.
SchemaCalls ==
    { Call("validate_required_fields", <<>>, Doc("map", <<"e1">>, <<"svc">>, P), r) :
        P \in SUBSET Fields,
        r \in { Transport, Resp(500, FALSE, FALSE, NoToken, {}, <<>>) }
              \cup { Resp(200, FALSE, TRUE, NoToken, {}, R) : R \in RequiredLists } }

\* api.py:35-59, validate_required_fields with a credential that is not
\* expired: get_blueprint_schema issues its GET (api.py:29-31), call.resp is
\* the answer, and the errors list is returned.
ValidateRequiredFields ==
    /\ call.fn = "validate_required_fields" /\ ~ret.done
    /\ ~TokenExpired(now, expiry) /\ ~HeadersRaise(token)
    /\ ret' = Ret(1, SchemaErrors(call.doc, call.resp), <<>>, TRUE, FALSE, TRUE)
    /\ UNCHANGED <<lifetime, impl, files, mainPc, clientOpen, pc, result, finished,
                   token, expiry, now, trace, stdout, exitCode, call>>

\* The arguments find_yaml_files (impl = "api") and the discovery of main()
\* (impl = "legacy") are called with.
DiscoveryCalls ==
    { Call("find_yaml_files", ps, NoCall.doc, NullResp) :
        ps \in UNION { [1..n -> PathArgs] : n \in 0..MaxPaths } }

\* The state before a single call: no run is in progress.
NoRun ==
    /\ files = <<>> /\ mainPc = "start" /\ clientOpen = FALSE
    /\ pc = <<>> /\ result = <<>> /\ finished = <<>> /\ trace = <<>>
    /\ stdout = <<>> /\ exitCode = 0
    /\ ret = NoRet

\* The credential get_access_token may find stored: no token or one obtained
\* earlier, with an expiry of 0 or just within / just beyond the buffer.
StoredTokens == {NoToken, "t0"}
StoredExpiries ==
    {InitialExpiry} \cup { t + d : t \in Times, d \in {BufferSeconds, BufferSeconds + 1} }

\* get_access_token called on its own (validate_artifact_blueprint.py:31),
\* the token request, if one is made, being answered by r.
TokenCalls ==
    { Call("get_access_token", <<>>, NoCall.doc, r) :
        r \in UNION { RefreshResponses(lt) : lt \in Lifetimes } }

\* settings.py:37-51, get_access_token up to its await: the stored token is
\* returned, or the token request is issued.
GetAccessToken ==
    /\ call.fn = "get_access_token" /\ ~ret.done /\ ~ret.posted
    /\ ret' = IF ReturnsCached(token, expiry, now)
              THEN Ret(1, <<token>>, <<>>, FALSE, FALSE, TRUE)
              ELSE Ret(1, <<>>, <<>>, TRUE, FALSE, FALSE)
    /\ UNCHANGED <<lifetime, impl, files, mainPc, clientOpen, pc, result, finished,
                   token, expiry, now, trace, stdout, exitCode, call>>

\* time.time() moves on while get_access_token waits for the answer.
ClockAdvances ==
    /\ call.fn = "get_access_token" /\ ret.posted /\ ~ret.done
    /\ \E t \in Times : t > now /\ now' = t
    /\ UNCHANGED <<lifetime, impl, files, mainPc, clientOpen, pc, result, finished,
                   token, expiry, trace, stdout, exitCode, call, ret>>

\* settings.py:51-72, the answer to the token request arrives: the token is
\* stored and returned, or get_access_token raises.
TokenResponse ==
    /\ call.fn = "get_access_token" /\ ret.posted /\ ~ret.done
    /\ token' = TokenAfter(call.resp, token)
    /\ expiry' = ExpiryAfter(call.resp, expiry, now)
    /\ ret' = IF RefreshRaises(call.resp)
              THEN Ret(1, <<>>, <<>>, TRUE, TRUE, TRUE)
              ELSE Ret(1, <<call.resp.token>>, <<>>, TRUE, FALSE, TRUE)
    /\ UNCHANGED <<lifetime, impl, files, mainPc, clientOpen, pc, result, finished,
                   now, trace, stdout, exitCode, call>>

CallInit ==
    /\ NoRun
    /\ \/ /\ call \in DiscoveryCalls
          /\ impl \in {"api", "legacy"}
          /\ lifetime = {} /\ token = NoToken /\ expiry = InitialExpiry /\ now = StartTime
       \/ /\ call \in SchemaCalls
          /\ impl = "api"
          /\ lifetime = {} /\ token \in Tokens /\ now = StartTime
          /\ expiry = StartTime + DefaultExpiresIn
       \/ /\ call \in TokenCalls
          /\ impl = "api"
          /\ lifetime = call.resp.expiresIn
          /\ token \in StoredTokens /\ expiry \in StoredExpiries /\ now \in Times

CallNext ==
    \/ ScanPath
    \/ ScanDefault
    \/ ValidateRequiredFields
    \/ GetAccessToken
    \/ ClockAdvances
    \/ TokenResponse

CallSpec == CallInit /\ [][CallNext]_vars


\* ===================================================================== claims
\* Positions of file i's history holding a request / a response of kind op.
ReqAt(i, op) ==
    { k \in 1..Len(trace[i]) : trace[i][k].ev = "req" /\ trace[i][k].op = op }
RspAt(i, op) ==
    { k \in 1..Len(trace[i]) : trace[i][k].ev = "resp" /\ trace[i][k].op = op }

\* Every token-refresh request issued so far, as (file, position).
RefreshRequests == UNION { { <<i, k>> : k \in ReqAt(i, "refresh") } : i \in FileIds }

\* A refresh has failed: some POST auth/access_token was answered by a
\* transport error, a status other than 200 or a body without accessToken.
RefreshFailure(e) ==
    /\ e.ev = "resp" /\ e.op = "refresh"
    /\ (e.resp.raised \/ e.resp.status # 200 \/ e.resp.token = NoToken)
AuthFailed == \E i \in FileIds : \E k \in 1..Len(trace[i]) : RefreshFailure(trace[i][k])

\* C1: starting from the empty credential, the concurrent tasks of a run with
\* two or more files issue at most one token-refresh request in total.
C1_AtMostOneRefresh ==
    (impl = "api" /\ Len(files) >= 2) => Cardinality(RefreshRequests) <= 1

\* C2 (as stated): every schema or existence request carries a credential
\* that is not expired when the request is issued: now + buffer < expiry.
C2_RequestCarriesUnexpiredToken ==
    impl = "api" =>
        \A i \in FileIds : \A k \in ReqAt(i, "schema") \cup ReqAt(i, "entity") :
            trace[i][k].left > 60

\* C2 (amended): every schema or existence request carries a credential that
\* was found unexpired by the call that issues it, or that the same call has
\* just obtained by a successful refresh, its expiry being now + expiresIn.
C2_UnexpiredOrJustRefreshed ==
    impl = "api" =>
        \A i \in FileIds : \A k \in ReqAt(i, "schema") \cup ReqAt(i, "entity") :
            \/ trace[i][k].left > 60
            \/ /\ k - 1 \in RspAt(i, "refresh")
               /\ ~RefreshFailure(trace[i][k - 1])
               /\ trace[i][k].tok = trace[i][k - 1].resp.token
               /\ trace[i][k - 1].resp.expiresIn = {trace[i][k].left}

\* C2 witness: after a clock advance, an existence request went out right
\* after a refresh whose token lifetime is within the buffer.
C2_Witness ==
    /\ impl = "api" /\ now > StartTime
    /\ \E i \in FileIds : \E k \in ReqAt(i, "entity") :
           trace[i][k].left <= 60 /\ k - 1 \in RspAt(i, "refresh")

\* The other case of C2: an existence request went out with the credential
\* an earlier refresh had stored, found unexpired.
C2_FoundUnexpired ==
    /\ impl = "api"
    /\ \E i \in FileIds : \E k \in ReqAt(i, "entity") :
           trace[i][k].left > 60 /\ k - 1 \in RspAt(i, "schema")

\* C3: once a token refresh has failed the run is aborted: no task issues a
\* request, receives a response or completes afterwards.
C3_RefreshFailureIsFatal ==
    [][AuthFailed => UNCHANGED <<pc, result, trace>>]_vars

\* A mapping document whose identifier or blueprint is missing or empty.
Unidentified(doc) ==
    /\ doc.yaml = "map"
    /\ \/ doc.identifier \in {<<>>, <<"">>}
       \/ doc.blueprint \in {<<>>, <<"">>}

\* C4: the task of a descriptor without identifier or blueprint never issues
\* a request (schema, existence or refresh) and ends with one structural error.
C4_StructuralErrorBeforeAnyCall ==
    \A i \in FileIds :
        Unidentified(files[i]) =>
            /\ trace[i] = <<>>
            /\ pc[i] \in {"new", "done"}
            /\ pc[i] = "done" => result[i] = <<[kind |-> "structure", file |-> i, subject |-> <<>>]>>

\* C4 witness: such a task has ended while another file's task is on the network.
C4_Witness ==
    \E i, j \in FileIds :
        Unidentified(files[i]) /\ pc[i] = "done" /\ trace[j] # <<>>

\* The schema check of file i has completed with zero errors before position k.
SchemaPassedBefore(i, k) ==
    \E j \in RspAt(i, "schema") :
        /\ j < k
        /\ ~trace[i][j].resp.raised /\ trace[i][j].resp.parsable
        /\ \A n \in 1..Len(trace[i][j].resp.required) :
               trace[i][j].resp.required[n] \in files[i].properties

SchemaFetchFailed(i) ==
    \E k \in RspAt(i, "schema") :
        \/ trace[i][k].resp.raised
        \/ ~trace[i][k].resp.parsable
        \/ trace[i][k].resp.status # 200

\* C6: a file whose schema request failed ends with at least one error.
C6_SchemaFetchFailClosed ==
    impl = "api" =>
        \A i \in FileIds : (pc[i] = "done" /\ SchemaFetchFailed(i)) => result[i] # <<>>

\* C7: once the existence lookup of a file has returned a status, the task
\* ends with no error for 200 and with exactly the update-only error naming
\* the descriptor's identifier and blueprint for any other status.
C7_OutcomeFollowsExistenceStatus ==
    impl = "api" =>
        \A i \in FileIds : \A k \in RspAt(i, "entity") :
            ~trace[i][k].resp.raised =>
                /\ pc[i] = "done"
                /\ result[i] =
                     IF trace[i][k].resp.status = 200 THEN <<>>
                     ELSE <<[kind |-> "update_only", file |-> 0,
                             subject |-> <<files[i].identifier[1], files[i].blueprint[1]>>]>>

\* C7 witness: one lookup answered 200 and another one answered 404.
C7_Witness ==
    /\ impl = "api"
    /\ \E i \in FileIds : \E k \in RspAt(i, "entity") : trace[i][k].resp.status = 200
    /\ \E i \in FileIds : \E k \in RspAt(i, "entity") : trace[i][k].resp.status = 404

RECURSIVE InDiscoveryOrder(_)
\* The error lists of files k, k+1, ... one after the other.
InDiscoveryOrder(k) ==
    IF k > Len(files) THEN <<>> ELSE result[k] \o InDiscoveryOrder(k + 1)

\* C8: the error lines of the report are the per-file error lists in
\* discovery order, whatever the order in which the tasks completed.
C8_ReportInDiscoveryOrder ==
    (mainPc = "exited" /\ InDiscoveryOrder(1) # <<>>) => stdout = InDiscoveryOrder(1)

\* C8 witness: a report of two failed files whose tasks completed in the
\* reverse of the discovery order.
C8_Witness ==
    /\ mainPc = "exited"
    /\ \E i, j \in FileIds :
           /\ i < j /\ result[i] # <<>> /\ result[j] # <<>> /\ result[i] # result[j]
           /\ \E m, n \in 1..Len(finished) : m < n /\ finished[m] = j /\ finished[n] = i

\* C9: the exit status is 1 exactly when some file produced an error; when
\* files were discovered and none produced an error, the report is the one
\* success line and the exit status is 0.
C9_ExitStatusIffErrors ==
    mainPc = "exited" =>
        /\ exitCode = 1 <=> (\E i \in FileIds : result[i] # <<>>)
        /\ exitCode \in {0, 1}
        /\ (files # <<>> /\ \A i \in FileIds : result[i] = <<>>)
           => (stdout = <<[kind |-> "success", file |-> 0, subject |-> <<>>]>> /\ exitCode = 0)

\* C9 witness: a run has ended in which one file passed every check and
\* another one produced an error.
C9_Witness ==
    /\ mainPc = "exited" /\ Len(files) = 2
    /\ trace[1] # <<>> /\ result[1] = <<>> /\ result[2] # <<>>

\* The success case of C9: a run has ended in which every file passed.
C9_AllPassed ==
    /\ mainPc = "exited" /\ Len(files) = 2
    /\ result[1] = <<>> /\ result[2] = <<>>

\* C10: a run that discovers no file never opens the network client, leaves
\* the credential untouched (no refresh), and ends with the no-files notice
\* and exit status 0.
C10_NoFilesNoNetwork ==
    files = <<>> =>
        /\ ~clientOpen
        /\ mainPc # "gather"
        /\ token = NoToken /\ expiry = 0
        /\ mainPc = "exited" =>
             (stdout = <<[kind |-> "no_files", file |-> 0, subject |-> <<>>]>> /\ exitCode = 0)

\* C10 witness: the run without files has ended.
C10_Witness == files = <<>> /\ mainPc = "exited"

\* The task of file i has issued a request that is not answered yet.
Pending(i) == trace[i] # <<>> /\ trace[i][Len(trace[i])].ev = "req"

\* C11: nothing is reported before every per-file task has completed: the
\* report and the exit status exist only once each task has returned, by
\* itself (no request of it is left unanswered, so it was not cancelled),
\* whatever its siblings ended with; until then a task that has not returned
\* is still waiting for its answer.
C11_ReportAfterEveryTask ==
    /\ mainPc # "exited" => (stdout = <<>> /\ exitCode = 0)
    /\ (mainPc = "exited" /\ files # <<>>) =>
           \A i \in FileIds :
               pc[i] = "done" /\ \E n \in 1..Len(finished) : finished[n] = i
    /\ \A i \in FileIds :
           /\ pc[i] = "done" => ~Pending(i)
           /\ pc[i] \notin {"new", "done"} => (Pending(i) /\ mainPc = "gather")

\* C11 witness: a request of the first task raised, the sibling completed
\* its checks after that without error, and the run has reported.
C11_Witness ==
    /\ mainPc = "exited" /\ Len(files) = 2
    /\ finished = <<1, 2>>
    /\ \E k \in 1..Len(trace[1]) : trace[1][k].ev = "resp" /\ trace[1][k].resp.raised
    /\ result[1] # <<>> /\ result[2] = <<>>
    /\ RspAt(2, "entity") # {}

\* The last message of file i's error list is the one an exception `why`
\* gives: the processing error naming the file, or the schema check's own.
EndsWith(i, kind, why) ==
    /\ result[i] # <<>>
    /\ result[i][Len(result[i])] =
           [kind |-> kind, file |-> IF kind = "processing" THEN i ELSE 0,
            subject |-> <<why>>]

\* What the last entry of the history of a finished task raised, if anything:
\* a failed token refresh (get_access_token raises its own error whatever
\* went wrong), a transport exception, an unparsable body.
RaisedAtEnd(i) ==
    LET e == trace[i][Len(trace[i])]
    IN  IF RefreshFailure(e) THEN <<"token">>
        ELSE IF e.resp.raised THEN <<"transport">>
        ELSE IF e.op \in {"schema", "validate"} /\ ~e.resp.parsable THEN <<"json">>
        ELSE <<>>

\* The handler that catches what file i's task raises at the end of its
\* history: the schema check's own until the schema check has returned.
StageAtEnd(i) ==
    IF impl = "api" /\ ~SchemaPassedBefore(i, Len(trace[i]) + 1)
    THEN "validating" ELSE "processing"

\* The finished task of file i ended while building the headers of a request:
\* its descriptor is valid and it stopped before its first request or right
\* after a schema check without errors.
StoppedAtHeaders(i) ==
    /\ impl = "api" /\ pc[i] = "done"
    /\ files[i].yaml = "map" /\ ~Unidentified(files[i])
    /\ \/ trace[i] = <<>>
       \/ /\ trace[i] # <<>> /\ trace[i][Len(trace[i])].op = "schema"
          /\ SchemaPassedBefore(i, Len(trace[i]) + 1)

\* C12: no task ends by raising; a task in which a stage raised has ended
\* with an error list whose last message is the error made from that
\* exception: the processing error naming the file for an unreadable file,
\* an empty or non-mapping document, a failed existence lookup or validation
\* request and a failure to build the headers; the parse error for a YAML
\* error and the schema check's error for a failure within the schema check.
C12_ExceptionBecomesFileError ==
    \A i \in FileIds :
        /\ pc[i] # "raised"
        /\ pc[i] = "done" =>
              /\ files[i].yaml = "unreadable" =>
                    result[i] = <<[kind |-> "processing", file |-> i, subject |-> <<"OSError">>]>>
              /\ files[i].yaml \in {"null", "list"} =>
                    result[i] = <<[kind |-> "processing", file |-> i, subject |-> <<"TypeError">>]>>
              /\ files[i].yaml = "error" =>
                    result[i] = <<[kind |-> "yaml_parse", file |-> i, subject |-> <<>>]>>
              /\ (trace[i] # <<>> /\ RaisedAtEnd(i) # <<>>) =>
                    EndsWith(i, StageAtEnd(i), RaisedAtEnd(i)[1])
              /\ StoppedAtHeaders(i) => EndsWith(i, StageAtEnd(i), "headers")

\* C12 witness: the run has reported an unreadable file and a file whose
\* existence lookup raised, each as one processing error naming its file.
C12_Witness ==
    /\ mainPc = "exited" /\ Len(files) = 2
    /\ files[1].yaml = "unreadable" /\ result[1] # <<>>
    /\ \E k \in RspAt(2, "entity") : trace[2][k].resp.raised
    /\ stdout = <<[kind |-> "processing", file |-> 1, subject |-> <<"OSError">>],
                  [kind |-> "processing", file |-> 2, subject |-> <<"transport">>]>>

\* Another case of C12: a task found the stored token cleared by a sibling's
\* refresh and ended with the error the headers raise.
C12_HeadersRaised ==
    \E i \in FileIds : pc[i] = "done" /\ EndsWith(i, "processing", "headers")

\* A file located under a directory named .github.
UnderGithub(f) == \E k \in 1..(Len(f) - 1) : f[k] = <<"", "github">>

\* A file whose name ends in .yaml or .yml.
YamlName(f) ==
    LET name == f[Len(f)]
    IN  Len(name) >= 2 /\ name[Len(name)] \in {"yaml", "yml"}

\* f is a direct child of a directory the discovery was asked to scan: a
\* directory argument, or the working directory when no paths were given.
DirectChild(f) ==
    IF call.paths = <<>> THEN Len(f) = 1
    ELSE \E k \in 1..Len(call.paths) :
             /\ call.paths[k] \notin OnDisk
             /\ Len(f) = Len(call.paths[k]) + 1
             /\ SubSeq(f, 1, Len(call.paths[k])) = call.paths[k]

\* f was given as an explicit file argument.
ExplicitFile(f) == \E k \in 1..Len(call.paths) : call.paths[k] = f

ReturnedFiles == { ret.out[k] : k \in 1..Len(ret.out) }

\* C13, first part: no returned file lies under .github.
C13_NothingUnderGithub ==
    (call.fn = "find_yaml_files" /\ ret.done) =>
        \A f \in ReturnedFiles : ~UnderGithub(f)

\* C13, second part: no YAML file outside .github that was named, or that is
\* a direct child of a scanned directory, is left out.
C13_NothingElseExcluded ==
    (call.fn = "find_yaml_files" /\ ret.done) =>
        \A f \in OnDisk :
            (YamlName(f) /\ ~UnderGithub(f) /\ (ExplicitFile(f) \/ DirectChild(f)))
                => f \in ReturnedFiles

\* C13, third part: a file returned from a scan is a direct child of the
\* scanned directory and has a YAML extension.
C13_DirectChildrenOnly ==
    (call.fn = "find_yaml_files" /\ ret.done) =>
        \A f \in ReturnedFiles : ExplicitFile(f) \/ (DirectChild(f) /\ YamlName(f))

\* C13: discovery returns no file under .github however it was reached,
\* leaves out no file that is not under .github, and for a directory argument
\* and the default scan returns only direct children with a YAML extension.
C13_DiscoveryExcludesExactlyGithub ==
    /\ C13_NothingUnderGithub
    /\ C13_NothingElseExcluded
    /\ C13_DirectChildrenOnly

\* C14: with the schema answered by a body whose required list is R, for a
\* descriptor with properties P, validate_required_fields returns no error
\* when every name of R is a key of P (so for an empty or absent R), and
\* otherwise exactly one message listing the names of R that are not keys of
\* P, in the order of R.
C14_OneMessageListsAbsentNames ==
    (call.fn = "validate_required_fields" /\ ret.done
       /\ ~call.resp.raised /\ call.resp.parsable) =>
        LET R == call.resp.required
            P == call.doc.properties
            Absent(x) == x \notin P
        IN  /\ (\A k \in 1..Len(R) : R[k] \in P) => ret.out = <<>>
            /\ (\E k \in 1..Len(R) : R[k] \notin P) =>
                  ret.out = <<[kind |-> "missing_fields", file |-> 0,
                               subject |-> SelectSeq(R, Absent)]>>

\* C14 witness: a call has returned one message naming two absent fields in
\* the order of the required list, which is not the alphabetical one.
C14_Witness ==
    /\ call.fn = "validate_required_fields" /\ ret.done
    /\ call.resp.required = <<"b", "a">> /\ call.doc.properties = {"c"}
    /\ Len(ret.out) = 1 /\ ret.out[1].subject = <<"b", "a">>

\* One step of a call of get_access_token, as C15 describes it.
C15_Step ==
    /\ (call.fn = "get_access_token" /\ ~ret.posted /\ ~ret.done) =>
          /\ ret'.posted <=> (token = NoToken \/ now + 60 >= expiry)
          /\ ~ret'.posted => (ret'.done /\ ~ret'.raised /\ ret'.out = <<token>>)
          /\ token' = token /\ expiry' = expiry
    /\ (call.fn = "get_access_token" /\ ret.posted /\ ~ret.done
          /\ ret'.done /\ ~ret'.raised) =>
          /\ token' = call.resp.token /\ token' # NoToken
          /\ expiry' = now + (IF call.resp.expiresIn = {} THEN 3600
                              ELSE CHOOSE x \in call.resp.expiresIn : TRUE)
          /\ ret'.out = <<token'>>

\* C15: get_access_token issues the token request exactly when the stored
\* token is absent or now + buffer >= expiry, and otherwise returns the stored
\* token and leaves token and expiry as they are; after a successful refresh
\* the stored token is the response's accessToken and the expiry is the time
\* of the response plus its expiresIn, 3600 when the response has none.
C15_RefreshIffAbsentOrExpired == [][C15_Step]_vars

\* C15 witness: a stored token within the buffer of its expiry was replaced
\* by a refresh whose response carries no expiresIn.
C15_Witness ==
    /\ call.fn = "get_access_token" /\ ret.done /\ ret.posted /\ ~ret.raised
    /\ call.resp.expiresIn = {}
    /\ token = "t1" /\ expiry = now + 3600 /\ now = 4600

\* The other case of C15: the stored token was returned without a request.
C15_ReturnedStored ==
    /\ call.fn = "get_access_token" /\ ret.done /\ ~ret.posted
    /\ ret.out = <<"t0">> /\ token = "t0" /\ expiry = now + 61

\* A file that passes the structural check.
StructurallyValid(doc) == doc.yaml = "map" /\ ~Unidentified(doc)

\* Every schema request issued so far, as (file, position).
SchemaRequests == UNION { { <<i, k>> : k \in ReqAt(i, "schema") } : i \in FileIds }

\* The token refresh made for file i's schema request failed.
SchemaRefreshFailed(i) ==
    /\ Len(trace[i]) >= 2
    /\ RefreshFailure(trace[i][2])

\* C16 (as stated): no file issues more than one schema request or more than
\* one existence request, and at the end of the run there are as many schema
\* requests as files that pass the structural check.
C16_SchemaRequestPerValidFile ==
    impl = "api" =>
        /\ \A i \in FileIds :
               /\ Cardinality(ReqAt(i, "schema")) <= 1
               /\ Cardinality(ReqAt(i, "entity")) <= 1
        /\ mainPc = "exited" =>
               Cardinality(SchemaRequests)
                   = Cardinality({ i \in FileIds : StructurallyValid(files[i]) })

\* C16 (amended): no file issues more than one schema request or more than
\* one existence request; a file that fails the structural check issues no
\* schema request, and a structurally valid file whose task has ended has
\* issued exactly one, its own, unless the token refresh made for it failed.
C16_OneSchemaRequestUnlessRefreshFailed ==
    impl = "api" =>
        \A i \in FileIds :
            /\ Cardinality(ReqAt(i, "schema")) <= 1
            /\ Cardinality(ReqAt(i, "entity")) <= 1
            /\ ~StructurallyValid(files[i]) => ReqAt(i, "schema") = {}
            /\ (StructurallyValid(files[i]) /\ pc[i] = "done") =>
                   Cardinality(ReqAt(i, "schema")) = IF SchemaRefreshFailed(i) THEN 0 ELSE 1

\* C16 witness: two files naming the same blueprint have each issued their
\* schema request and their existence request, and the run has ended.
C16_Witness ==
    /\ impl = "api" /\ mainPc = "exited" /\ Len(files) = 2
    /\ files[1].blueprint = files[2].blueprint
    /\ \A i \in FileIds :
           Cardinality(ReqAt(i, "schema")) = 1 /\ Cardinality(ReqAt(i, "entity")) = 1

\* The three ways a run ends.
AggregateFailure ==
    exitCode = 1 /\ stdout # <<>> /\ stdout = InDiscoveryOrder(1)
SingleSuccess ==
    /\ exitCode = 0 /\ files # <<>>
    /\ stdout = <<[kind |-> "success", file |-> 0, subject |-> <<>>]>>
NoFilesNotice ==
    /\ exitCode = 0 /\ files = <<>>
    /\ stdout = <<[kind |-> "no_files", file |-> 0, subject |-> <<>>]>>

\* C17: when every step that can be taken is eventually taken and every
\* request is answered, every task ends (with or without errors) and the run
\* ends in exactly one of: all error lines with exit status 1, the success
\* line with exit status 0, the no-files notice with exit status 0.
C17_RunTerminates ==
    <>( /\ mainPc = "exited"
        /\ \A i \in FileIds : pc[i] = "done"
        /\ \/ AggregateFailure /\ ~SingleSuccess /\ ~NoFilesNotice
           \/ ~AggregateFailure /\ SingleSuccess /\ ~NoFilesNotice
           \/ ~AggregateFailure /\ ~SingleSuccess /\ NoFilesNotice )

\* C17 witness: a run of two files in which the clock moved on and a token
\* was refreshed has ended with the aggregate failure.
C17_Witness ==
    /\ mainPc = "exited" /\ Len(files) = 2 /\ now > StartTime
    /\ AggregateFailure
    /\ \E i \in FileIds : RspAt(i, "refresh") # {} /\ RspAt(i, "entity") # {}

\* C18: every schema or existence request carries a real token: none is
\* issued while the stored token is absent, also after a failed refresh has
\* cleared the token of a credential that is not expired.
C18_NoRequestWithoutToken ==
    impl = "api" =>
        \A i \in FileIds : \A k \in ReqAt(i, "schema") \cup ReqAt(i, "entity") :
            trace[i][k].tok \notin {"None", ""}

\* C18 witness: the stored token is absent while the expiry lies beyond the
\* buffer, and a task that then came to its existence lookup ended with the
\* error of the headers without issuing the request.
C18_Witness ==
    /\ impl = "api"
    /\ token = "None" /\ now + 60 < expiry
    /\ \E i \in FileIds :
           /\ pc[i] = "done"
           /\ RspAt(i, "schema") # {} /\ ReqAt(i, "entity") = {}
           /\ result[i] = <<[kind |-> "processing", file |-> i, subject |-> <<"headers">>]>>

\* In this step the token request of some task is answered by a failure.
RefreshFails ==
    \E i \in FileIds :
        /\ Len(trace'[i]) > Len(trace[i])
        /\ RefreshFailure(trace'[i][Len(trace'[i])])

\* C19: a failed refresh (status other than 200, body without accessToken,
\* transport exception) leaves the stored token and the stored expiry as
\* they were before the call.
C19_FailedRefreshKeepsCredential ==
    [][RefreshFails => (token' = token /\ expiry' = expiry)]_vars

\* The state C19 is about: a token obtained earlier and not expired is gone
\* after a sibling's refresh has failed.
C19_TokenLost ==
    /\ impl = "api" /\ token = "None" /\ now + 60 < expiry
    /\ \E i \in FileIds : \E k \in RspAt(i, "refresh") : trace[i][k].resp.token = "t1"

\* The file of the existence lookup answered 200 after a schema check
\* without errors: it has passed every check.
PassedEveryCheck(i) ==
    \E k \in RspAt(i, "entity") :
        /\ ~trace[i][k].resp.raised /\ trace[i][k].resp.status = 200
        /\ SchemaPassedBefore(i, k)

\* C20: a task of port_common.api.process_file records at most one error:
\* once it has ended its error list is empty if the file passed every check
\* and has exactly one message otherwise, so the report of a failed run has
\* no more lines than there are files.
C20_AtMostOneErrorPerFile ==
    impl = "api" =>
        /\ \A i \in FileIds :
               /\ Len(result[i]) <= 1
               /\ pc[i] = "done" =>
                     Len(result[i]) = IF PassedEveryCheck(i) THEN 0 ELSE 1
        /\ (mainPc = "exited" /\ exitCode = 1) => Len(stdout) <= Len(files)

\* C20 witness: a run of two files has ended, one with missing required
\* fields and one with an entity that does not exist, with two error lines.
C20_Witness ==
    /\ impl = "api" /\ mainPc = "exited" /\ Len(files) = 2
    /\ Len(stdout) = 2
    /\ stdout[1].kind = "missing_fields" /\ stdout[2].kind = "update_only"

====
